---- MODULE Spec2Model ----
(***************************************************************************)
(* ZMPT101B voltage sensor driver for the ESP32 (components/zmpt101b).     *)
(*                                                                         *)
(* The module models                                                       *)
(*   - zmpt101b_init: six peripheral configuration sub-steps whose error   *)
(*     codes are OR-ed together;                                           *)
(*   - zmpt101b_read_voltage: buffer allocation, the i2s_read accumulation *)
(*     loop, the call of the median filter, the RMS estimate;              *)
(*   - median_filter_in_place: validation, odd coercion, scratch window    *)
(*     allocation, one loop iteration per step;                            *)
(*   - app_main: retry of the initialisation, ESP_ERROR_CHECK on a read.   *)
(*                                                                         *)
(* C arrays are 0-based, TLA+ sequences 1-based: data[i] in C is data[i+1] *)
(* here.  Indices (i, start, end, k) keep their C values.                  *)
(***************************************************************************)
EXTENDS Integers, Sequences, FiniteSets, TLC

(***************************************************************************)
(* Program constants                                                       *)
(***************************************************************************)
ESP_OK == 0
ESP_FAIL == -1
ESP_ERR_NO_MEM == 257
ESP_ERR_INVALID_ARG == 258
ESP_ERR_INVALID_SIZE == 260
UINT16_MAX == 65535
DMA_BUFFER_LEN == 1024
SIZEOF_UINT16 == 2
FILTER_WINDOW == 10

\* #define I2S_READ_BUFFER_16B ( DMA_BUFFER_LEN / sizeof(uint16_t) ) * 2
\* The macro has no outer parentheses; every use in the driver
\* (calloc argument, "* 2 - total", right operand of "<", call argument)
\* still parses to this value.
I2S_READ_BUFFER_16B == (DMA_BUFFER_LEN \div SIZEOF_UINT16) * 2

(***************************************************************************)
(* Bounds of the filter and estimator harnesses                            *)
(***************************************************************************)
MaxLen == 4
MaxSample == 2
MaxCode == 8

(***************************************************************************)
(* esp_err_t arithmetic: bitwise OR of 32-bit two's complement integers    *)
(***************************************************************************)
RECURSIVE OrNat(_, _)
OrNat(a, b) ==
    IF a = 0 THEN b
    ELSE IF b = 0 THEN a
    ELSE (IF a % 2 = 1 \/ b % 2 = 1 THEN 1 ELSE 0) + 2 * OrNat(a \div 2, b \div 2)

\* low 31 bits of a 32-bit two's complement value
Low31(x) == IF x < 0 THEN (x + 2147483647) + 1 ELSE x

BitOr(a, b) ==
    LET m == OrNat(Low31(a), Low31(b))
    IN  IF a < 0 \/ b < 0 THEN (m - 2147483647) - 1 ELSE m

(***************************************************************************)
(* median_filter_in_place: helpers                                         *)
(***************************************************************************)
\* faulty variant: the window size is not validated
InvalidWindowNever(window_size, length) == FALSE

\* if (window_size > length) return false;
InvalidWindow(window_size, length) == window_size > length

\* faulty variant: the parity test is inverted
OddWindowInverted(window_size) ==
    IF window_size % 2 = 1 THEN window_size + 1 ELSE window_size

\* if (window_size % 2 == 0) window_size++;
OddWindow(window_size) ==
    IF window_size % 2 = 0 THEN window_size + 1 ELSE window_size

\* *max_value = !*min_value;   (C logical not)
LogicalNot(x) == IF x = 0 THEN 1 ELSE 0

WindowStart(i, half_window) == IF i < half_window THEN 0 ELSE i - half_window

WindowEnd(i, half_window, length) ==
    IF i + half_window >= length THEN length - 1 ELSE i + half_window

\* memcpy(window, data + start, current_window_size * sizeof(uint16_t));
\* cells of the scratch window beyond current_window_size keep their content.
\* The odd window_size cells always hold the clamped window (at most
\* 2 * half_window + 1 samples); a copy longer than the block would run on
\* into the memory behind it.
CopyWindow(window, data, start, current_window_size) ==
    LET cells == IF Len(window) >= current_window_size
                 THEN Len(window) ELSE current_window_size
    IN  [k \in 1..cells |->
            IF k <= current_window_size THEN data[start + k] ELSE window[k]]

\* while (k > 0 && window[k - 1] > key) { window[k] = window[k - 1]; k--; }
\* window[k] = key;
RECURSIVE ShiftDown(_, _, _)
ShiftDown(window, k, key) ==
    IF k > 0 /\ window[k] > key
    THEN ShiftDown([window EXCEPT ![k + 1] = window[k]], k - 1, key)
    ELSE [window EXCEPT ![k + 1] = key]

\* for (size_t j = 1; j < current_window_size; ++j) { key = window[j]; ... }
RECURSIVE InsertionSort(_, _, _)
InsertionSort(window, j, current_window_size) ==
    IF j < current_window_size
    THEN InsertionSort(ShiftDown(window, j, window[j + 1]), j + 1, current_window_size)
    ELSE window

\* faulty variant: the lower median of an even window
LowerMedianIndex(current_window_size) == (current_window_size - 1) \div 2

\* window[current_window_size / 2]
MedianIndex(current_window_size) == current_window_size \div 2

\* faulty variant: the second test hangs on an else
DetectPeaksElseIf(v, mn, mx) ==
    [max |-> IF v > mx THEN v ELSE mx,
     min |-> IF v > mx THEN mn ELSE IF v < mn THEN v ELSE mn]

\* if (data[i] > *max_value) *max_value = data[i];
\* if (data[i] < *min_value) *min_value = data[i];
DetectPeaks(v, mn, mx) ==
    [max |-> IF v > mx THEN v ELSE mx,
     min |-> IF v < mn THEN v ELSE mn]

\* One iteration of the loop over i (lines 36-63).
FilterIteration(d, win, idx, half_window, len, mn, mx) ==
    LET start == WindowStart(idx, half_window)
        end == WindowEnd(idx, half_window, len)
        current_window_size == end - start + 1
        sorted == InsertionSort(CopyWindow(win, d, start, current_window_size),
                                1, current_window_size)
        median == sorted[MedianIndex(current_window_size) + 1]
        peaks == DetectPeaks(median, mn, mx)
    IN  [data |-> [d EXCEPT ![idx + 1] = median],
         window |-> sorted,
         min |-> peaks.min,
         max |-> peaks.max]

\* The whole filter as a function of its arguments: the loop from index idx on.
RECURSIVE FilterFrom(_, _, _, _, _, _, _)
FilterFrom(d, win, idx, half_window, len, mn, mx) ==
    IF idx < len
    THEN LET r == FilterIteration(d, win, idx, half_window, len, mn, mx)
         IN  FilterFrom(r.data, r.window, idx + 1, half_window, len, r.min, r.max)
    ELSE [ok |-> TRUE, data |-> d, min |-> mn, max |-> mx]

\* median_filter_in_place(data, length, window_size, &min, &max) with the
\* outcome of malloc as an input; mn, mx are the caller's values of *min_value
\* and *max_value before the call.
MedianFilter(d, len, w, mn, mx, malloc_ok) ==
    IF InvalidWindow(w, len) \/ ~malloc_ok
    THEN [ok |-> FALSE, data |-> d, min |-> mn, max |-> mx]
    ELSE LET odd == OddWindow(w)
         IN  FilterFrom(d, [k \in 1..odd |-> 0], 0, odd \div 2, len,
                        UINT16_MAX, LogicalNot(UINT16_MAX))

(***************************************************************************)
(* zmpt101b_init: helpers                                                  *)
(***************************************************************************)
InitSubSteps ==
    << "adc1_config_width", "adc1_config_channel_atten", "i2s_driver_install",
       "i2s_set_clk", "i2s_set_adc_mode", "i2s_adc_enable" >>

\* error codes a configuration sub-step of ESP-IDF may return
SubStepResults == {ESP_OK, ESP_FAIL, ESP_ERR_NO_MEM, ESP_ERR_INVALID_ARG}

\* faulty variant: plain assignment, the last result wins
CombineLast(esp_err, r) == r

\* esp_err |= sub_step(...);
Combine(esp_err, r) == BitOr(esp_err, r)

(***************************************************************************)
(* zmpt101b_read_voltage: helpers                                          *)
(***************************************************************************)
\* calloc(I2S_READ_BUFFER_16B, sizeof(uint16_t))
ZeroBuffer == [k \in 1..I2S_READ_BUFFER_16B |-> 0]

\* faulty variant: the bytes already received are not subtracted
ReadSizeWhole(total) == I2S_READ_BUFFER_16B * 2

\* size argument of i2s_read: I2S_READ_BUFFER_16B * 2 - total_bytes_read
ReadSize(total) == I2S_READ_BUFFER_16B * 2 - total

\* while ((total_bytes_read / 2) < I2S_READ_BUFFER_16B)
MoreToRead(total) == (total \div 2) < I2S_READ_BUFFER_16B

\* faulty variant: the result of i2s_read is not tested
ReadFailedNever(r) == FALSE

\* if (ret != ESP_OK) { free; return ESP_ERR_INVALID_SIZE; }
ReadFailed(r) == r # ESP_OK

\* Byte counts a successful i2s_read may report for a request of `size`
\* bytes: nothing, a few bytes (odd and even), half, all but one, all.
ChunkSizes(size) == {n \in {0, 1, 2, 3, size \div 2, size - 1, size} : n >= 0 /\ n <= size}

\* Sample streams the DMA delivers, one 16-bit word per sample (12-bit ADC
\* codes of channel 0).  50 Hz at 25 kHz is 500 samples per period.
TriangleWave ==
    [k \in 1..I2S_READ_BUFFER_16B |->
        LET p == k % 500
            v == IF p < 250 THEN p ELSE 500 - p
        IN  548 + 12 * v + (IF k % 7 = 0 THEN 400 ELSE 0)]

FlatWithSpike == [k \in 1..I2S_READ_BUFFER_16B |-> IF k = 100 THEN 4095 ELSE 2048]

Streams == {"triangle", "flat"}

StreamData(s) == IF s = "triangle" THEN TriangleWave ELSE FlatWithSpike

\* i2s_read copies n bytes of the stream to (uint8_t*)buffer + off.  The
\* stream position equals the buffer offset; samples are little-endian, so
\* byte 2k is the low and byte 2k+1 the high byte of sample k.  Bytes that
\* would fall behind the end of the block are not stored in the model.
NewSample(d, off, n, s, k) ==
    LET lo == IF 2 * k >= off /\ 2 * k < off + n
              THEN s[k + 1] % 256 ELSE d[k + 1] % 256
        hi == IF 2 * k + 1 >= off /\ 2 * k + 1 < off + n
              THEN s[k + 1] \div 256 ELSE d[k + 1] \div 256
    IN  hi * 256 + lo

WriteBytes(d, off, n, s) ==
    LET first == off \div 2
        lastRaw == (off + n - 1) \div 2
        last == IF lastRaw >= Len(d) THEN Len(d) - 1 ELSE lastRaw
    IN  IF n = 0 \/ first >= Len(d) THEN d
        ELSE IF first = last
        THEN SubSeq(d, 1, first) \o << NewSample(d, off, n, s, first) >>
                 \o SubSeq(d, last + 2, Len(d))
        ELSE SubSeq(d, 1, first) \o << NewSample(d, off, n, s, first) >>
                 \o SubSeq(s, first + 2, last) \o << NewSample(d, off, n, s, last) >>
                 \o SubSeq(d, last + 2, Len(d))

\* Calibration curves esp_adc_cal_characterize may produce; the result of
\* esp_adc_cal_raw_to_voltage is stored in a uint16_t.
Curves == {"identity", "linear"}

RawToVoltage(raw, curve) ==
    IF curve = "identity" THEN raw % 65536
    ELSE ((raw * 4) \div 5 + 142) % 65536

\* (x / 2.0) / 1.4142135 = x * 10^6 / 2828427, kept as quotient and remainder;
\* the product is built digit by digit to stay within 32-bit integers.
SQRT2_SCALED == 2828427

RECURSIVE TimesTen(_, _, _)
TimesTen(q, r, steps) ==
    IF steps = 0 THEN [q |-> q, r |-> r]
    ELSE TimesTen(q * 10 + (r * 10) \div SQRT2_SCALED, (r * 10) % SQRT2_SCALED, steps - 1)

HalfOverSqrt2(x) == TimesTen(x \div SQRT2_SCALED, x % SQRT2_SCALED, 6)

\* faulty variant: the fraction is dropped
Truncate(q, r) == q

\* round(): to nearest, halves away from zero (no half occurs: SQRT2_SCALED is odd)
Round(q, r) == IF 2 * r >= SQRT2_SCALED THEN q + 1 ELSE q

RoundedRms(x) == LET v == HalfOverSqrt2(x) IN Round(v.q, v.r)

\* *rmsVoltage = round(((voltage_max - voltage_min) / 2.0) / 1.4142135);
\* the difference is an int; a double below -0.5 converted to uint16_t is
\* undefined, so any 16-bit value may be stored.
RmsVoltage(voltage_min, voltage_max) ==
    LET diff == voltage_max - voltage_min
    IN  IF diff >= 0 THEN {RoundedRms(diff)}
        ELSE IF RoundedRms(-diff) = 0 THEN {0}
        ELSE {0, 65536 - RoundedRms(-diff), UINT16_MAX}

(***************************************************************************)
(* State                                                                   *)
(***************************************************************************)
VARIABLES
    pc,               \* position of app_main / the driver call in progress
    esp_err,          \* zmpt101b_init: accumulated error code
    attempted,        \* zmpt101b_init: sub-steps called so far, in order
    any_failed,       \* zmpt101b_init: some sub-step returned an error (history)
    succeeded,        \* zmpt101b_init: sub-steps that returned ESP_OK (history)
    applied,          \* peripheral: configuration sub-steps in effect
    sensor_err,       \* app_main: value returned by zmpt101b_init
    adc_chars,        \* calibration characteristics ("null" before init)
    capacity,         \* bytes of the block i2s_read_buffer points to (0: none)
    data,             \* the sample block (i2s_read_buffer; `data` in the filter)
    total_bytes_read, \* zmpt101b_read_voltage: loop accumulator
    stream,           \* the signal the DMA delivers during this capture
    short_reads,      \* a successful i2s_read of this call came up short (history)
    io_failed,        \* an i2s_read of this call returned an error (history)
    fpc,              \* position inside median_filter_in_place
    length,           \* filter argument
    window_size,      \* filter argument (incremented in place when even)
    window,           \* scratch window (<<>>: not allocated)
    i,                \* filter loop index
    min_value,        \* *min_value
    max_value,        \* *max_value
    ok,               \* value returned by median_filter_in_place
    arg_data,         \* buffer content at filter entry (history)
    arg_window_size,  \* window_size at filter entry (history)
    arg_min,          \* *min_value at filter entry (history)
    arg_max,          \* *max_value at filter entry (history)
    rmsVoltage,       \* *rmsVoltage
    ret               \* value returned by zmpt101b_read_voltage

initVars == << esp_err, attempted, any_failed, succeeded, applied, sensor_err, adc_chars >>

readVars == << capacity, total_bytes_read, stream, short_reads, io_failed,
               rmsVoltage, ret >>

filterVars == << fpc, length, window_size, window, i, min_value, max_value, ok,
                 arg_data, arg_window_size, arg_min, arg_max >>

vars == << pc, initVars, readVars, data, filterVars >>

\* values of the filter's locals while no call is in progress
FilterIdle ==
    /\ fpc = "idle" /\ length = 0 /\ window_size = 0 /\ window = << >> /\ i = 0
    /\ min_value = 0 /\ max_value = 0 /\ ok = FALSE
    /\ arg_data = << >> /\ arg_window_size = 0 /\ arg_min = 0 /\ arg_max = 0

ReadIdle ==
    /\ capacity = 0 /\ total_bytes_read = 0 /\ stream = "none"
    /\ short_reads = FALSE /\ io_failed = FALSE
    /\ rmsVoltage = 0 /\ ret = ESP_OK

InitIdle ==
    /\ esp_err = ESP_OK /\ attempted = << >> /\ any_failed = FALSE
    /\ succeeded = {} /\ applied = {} /\ sensor_err = ESP_OK /\ adc_chars = "null"

\* power-on: app_main is about to call zmpt101b_init
Init ==
    /\ pc = "start"
    /\ InitIdle
    /\ ReadIdle
    /\ data = << >>
    /\ FilterIdle

(***************************************************************************)
(* median_filter_in_place                                                  *)
(***************************************************************************)
\* lines 17-35: validation, odd coercion, malloc of the window, min/max reset
FilterEntry ==
    /\ fpc = "entry"
    /\ IF InvalidWindow(window_size, length)
       THEN /\ fpc' = "returned"
            /\ ok' = FALSE
            /\ UNCHANGED << window_size, window, i, min_value, max_value >>
       ELSE /\ window_size' = OddWindow(window_size)
            /\ \E malloc_ok \in BOOLEAN :
                 IF ~malloc_ok
                 THEN /\ fpc' = "returned"
                      /\ ok' = FALSE
                      /\ UNCHANGED << window, i, min_value, max_value >>
                 ELSE /\ window' = [k \in 1..window_size' |-> 0]
                      /\ min_value' = UINT16_MAX
                      /\ max_value' = LogicalNot(min_value')
                      /\ i' = 0
                      /\ fpc' = "loop"
                      /\ UNCHANGED ok
    /\ UNCHANGED << pc, initVars, readVars, data, length,
                    arg_data, arg_window_size, arg_min, arg_max >>

\* lines 36-63: one iteration of the loop over i
FilterLoop ==
    /\ fpc = "loop"
    /\ i < length
    /\ LET r == FilterIteration(data, window, i, window_size \div 2, length,
                                min_value, max_value)
       IN  /\ data' = r.data
           /\ window' = r.window
           /\ min_value' = r.min
           /\ max_value' = r.max
    /\ i' = i + 1
    /\ UNCHANGED << pc, initVars, readVars, fpc, length, window_size, ok,
                    arg_data, arg_window_size, arg_min, arg_max >>

\* lines 64-65: free(window); return true;
FilterExit ==
    /\ fpc = "loop"
    /\ ~(i < length)
    /\ window' = << >>
    /\ ok' = TRUE
    /\ fpc' = "returned"
    /\ UNCHANGED << pc, initVars, readVars, data, length, window_size, i,
                    min_value, max_value, arg_data, arg_window_size, arg_min, arg_max >>

(***************************************************************************)
(* zmpt101b_init and its caller                                            *)
(***************************************************************************)
\* main.c 60, zmpt101b.c 101-123: esp_err = ESP_OK; characterise the ADC
InitEnter ==
    /\ pc = "start"
    /\ esp_err' = ESP_OK
    /\ attempted' = << >>
    /\ any_failed' = FALSE
    /\ succeeded' = {}
    /\ adc_chars' \in Curves
    /\ pc' = "init"
    /\ UNCHANGED << applied, sensor_err, readVars, data, filterVars >>

\* lines 126-134: the next configuration sub-step, whatever came before
InitSubStep ==
    /\ pc = "init"
    /\ Len(attempted) < Len(InitSubSteps)
    /\ LET step == InitSubSteps[Len(attempted) + 1]
       IN  \E r \in SubStepResults :
             /\ esp_err' = Combine(esp_err, r)
             /\ attempted' = Append(attempted, step)
             /\ any_failed' = (any_failed \/ r # ESP_OK)
             /\ succeeded' = IF r = ESP_OK THEN succeeded \cup {step} ELSE succeeded
             /\ applied' = IF r = ESP_OK THEN applied \cup {step} ELSE applied
    /\ UNCHANGED << pc, sensor_err, adc_chars, readVars, data, filterVars >>

\* lines 136-140: return esp_err;
InitReturn ==
    /\ pc = "init"
    /\ Len(attempted) = Len(InitSubSteps)
    /\ sensor_err' = esp_err
    /\ pc' = "init_returned"
    /\ UNCHANGED << esp_err, attempted, any_failed, succeeded, applied, adc_chars,
                    readVars, data, filterVars >>

\* main.c 61-65: retry after a delay until the initialisation succeeds
MainRetryInit ==
    /\ pc = "init_returned"
    /\ sensor_err # ESP_OK
    /\ pc' = "start"
    /\ UNCHANGED << initVars, readVars, data, filterVars >>

MainInitDone ==
    /\ pc = "init_returned"
    /\ sensor_err = ESP_OK
    /\ pc' = "idle"
    /\ UNCHANGED << initVars, readVars, data, filterVars >>

(***************************************************************************)
(* zmpt101b_read_voltage and its caller                                    *)
(***************************************************************************)
\* main.c 72-73, zmpt101b.c 145-158: *rmsVoltage = 0; calloc of the buffer
ReadVoltageEnter ==
    /\ pc = "idle"
    /\ rmsVoltage' = 0
    /\ io_failed' = FALSE
    /\ short_reads' = FALSE
    /\ total_bytes_read' = 0
    /\ fpc' = "idle" /\ length' = 0 /\ window_size' = 0 /\ window' = << >> /\ i' = 0
    /\ min_value' = 0 /\ max_value' = 0 /\ ok' = FALSE
    /\ arg_data' = << >> /\ arg_window_size' = 0 /\ arg_min' = 0 /\ arg_max' = 0
    /\ \E calloc_ok \in BOOLEAN :
         IF ~calloc_ok
         THEN /\ ret' = ESP_ERR_NO_MEM
              /\ pc' = "returned"
              /\ capacity' = 0
              /\ data' = << >>
              /\ stream' = "none"
         ELSE /\ capacity' = I2S_READ_BUFFER_16B * SIZEOF_UINT16
              /\ data' = ZeroBuffer
              /\ stream' \in Streams
              /\ pc' = "read"
              /\ UNCHANGED ret
    /\ UNCHANGED initVars

\* lines 159-168: one pass of the do-while body and its loop test
I2sRead ==
    /\ pc = "read"
    /\ \E r \in {ESP_OK, ESP_FAIL, ESP_ERR_INVALID_ARG} :
         IF ReadFailed(r)
         THEN /\ io_failed' = TRUE
              /\ capacity' = 0
              /\ data' = << >>
              /\ ret' = ESP_ERR_INVALID_SIZE
              /\ pc' = "returned"
              /\ UNCHANGED << total_bytes_read, short_reads >>
         ELSE LET size == ReadSize(total_bytes_read)
              IN  \E bytes_read \in (IF r = ESP_OK THEN ChunkSizes(size) ELSE {0}) :
                    /\ io_failed' = (io_failed \/ r # ESP_OK)
                    /\ short_reads' = (short_reads \/ bytes_read < size)
                    /\ data' = WriteBytes(data, total_bytes_read, bytes_read,
                                          StreamData(stream))
                    /\ total_bytes_read' = total_bytes_read + bytes_read
                    /\ pc' = IF MoreToRead(total_bytes_read') THEN "read" ELSE "acquired"
                    /\ UNCHANGED << capacity, ret >>
    /\ UNCHANGED << initVars, stream, rmsVoltage, filterVars >>

\* lines 170-173: min_value = max_value = 0; call of the median filter
ReadVoltageCallFilter ==
    /\ pc = "acquired"
    /\ min_value' = 0
    /\ max_value' = 0
    /\ length' = I2S_READ_BUFFER_16B
    /\ window_size' = FILTER_WINDOW
    /\ arg_data' = data
    /\ arg_window_size' = FILTER_WINDOW
    /\ arg_min' = 0
    /\ arg_max' = 0
    /\ fpc' = "entry"
    /\ pc' = "filter"
    /\ UNCHANGED << initVars, readVars, data, window, i, ok >>

\* lines 173-205: the filter's result is not looked at; RMS estimate, free, return
ReadVoltageEstimate ==
    /\ pc = "filter"
    /\ fpc = "returned"
    /\ LET voltage_min == RawToVoltage(min_value, adc_chars)
           voltage_max == RawToVoltage(max_value, adc_chars)
       IN  rmsVoltage' \in RmsVoltage(voltage_min, voltage_max)
    /\ capacity' = 0
    /\ data' = << >>
    /\ ret' = ESP_OK
    /\ pc' = "returned"
    /\ UNCHANGED << initVars, total_bytes_read, stream, short_reads, io_failed,
                    filterVars >>

\* main.c 73: ESP_ERROR_CHECK aborts on an error; the chip restarts
MainAbort ==
    /\ pc = "returned"
    /\ ret # ESP_OK
    /\ pc' = "start"
    /\ esp_err' = ESP_OK /\ attempted' = << >> /\ any_failed' = FALSE
    /\ succeeded' = {} /\ applied' = {} /\ sensor_err' = ESP_OK /\ adc_chars' = "null"
    /\ capacity' = 0 /\ total_bytes_read' = 0 /\ stream' = "none"
    /\ short_reads' = FALSE /\ io_failed' = FALSE
    /\ rmsVoltage' = 0 /\ ret' = ESP_OK
    /\ data' = << >>
    /\ fpc' = "idle" /\ length' = 0 /\ window_size' = 0 /\ window' = << >> /\ i' = 0
    /\ min_value' = 0 /\ max_value' = 0 /\ ok' = FALSE
    /\ arg_data' = << >> /\ arg_window_size' = 0 /\ arg_min' = 0 /\ arg_max' = 0

\* main.c 74-78: print the voltage, wait for the next iteration
MainContinue ==
    /\ pc = "returned"
    /\ ret = ESP_OK
    /\ pc' = "idle"
    /\ UNCHANGED << initVars, readVars, data, filterVars >>

(***************************************************************************)
(* The driver as app_main runs it                                          *)
(***************************************************************************)
Next ==
    \/ InitEnter
    \/ InitSubStep
    \/ InitReturn
    \/ MainRetryInit
    \/ MainInitDone
    \/ ReadVoltageEnter
    \/ I2sRead
    \/ ReadVoltageCallFilter
    \/ FilterEntry
    \/ FilterLoop
    \/ FilterExit
    \/ ReadVoltageEstimate
    \/ MainAbort
    \/ MainContinue

Spec == Init /\ [][Next]_vars

(***************************************************************************)
(* median_filter_in_place on its own: every buffer of up to MaxLen samples *)
(* and every window size up to MaxLen + 1, plus the fixture of the tests.  *)
(***************************************************************************)
Samples == (0..MaxSample) \cup {UINT16_MAX}

Fixture == << 9, 1, 8, 2, 7 >>

FilterInputs == UNION {[1..n -> Samples] : n \in 0..MaxLen} \cup {Fixture}

\* values *min_value and *max_value hold before the call
CallerExtremes == {<< 0, 0 >>, << 7, 3 >>}

FilterInit ==
    /\ pc = "test"
    /\ InitIdle
    /\ ReadIdle
    /\ data \in FilterInputs
    /\ length = Len(data)
    /\ window_size \in 0..(MaxLen + 1)
    /\ \E e \in CallerExtremes : min_value = e[1] /\ max_value = e[2]
    /\ fpc = "entry"
    /\ window = << >>
    /\ i = 0
    /\ ok = FALSE
    /\ arg_data = data
    /\ arg_window_size = window_size
    /\ arg_min = min_value
    /\ arg_max = max_value

FilterNext == FilterEntry \/ FilterLoop \/ FilterExit

FilterSpec == FilterInit /\ [][FilterNext]_vars

(***************************************************************************)
(* The RMS estimate on its own: filtered extremes min <= max drawn from    *)
(* RawCodes, under each calibration curve.                                 *)
(***************************************************************************)
RawCodes == (0..MaxCode) \cup {1000, 4095, 5000, UINT16_MAX}

AllSubSteps == {InitSubSteps[k] : k \in 1..Len(InitSubSteps)}

\* zmpt101b_read_voltage at line 178: the filter has returned with the
\* extremes mn <= mx; the buffer is still allocated
EstimateInit ==
    /\ pc = "filter"
    /\ esp_err = ESP_OK /\ attempted = InitSubSteps /\ any_failed = FALSE
    /\ succeeded = AllSubSteps /\ applied = AllSubSteps /\ sensor_err = ESP_OK
    /\ adc_chars \in Curves
    /\ capacity = I2S_READ_BUFFER_16B * SIZEOF_UINT16
    /\ total_bytes_read = capacity
    /\ stream = "none" /\ short_reads = FALSE /\ io_failed = FALSE
    /\ rmsVoltage = 0 /\ ret = ESP_OK
    /\ data = ZeroBuffer
    /\ fpc = "returned" /\ length = I2S_READ_BUFFER_16B
    /\ window_size = OddWindow(FILTER_WINDOW) /\ window = << >>
    /\ i = I2S_READ_BUFFER_16B
    /\ \E mn \in RawCodes, mx \in RawCodes :
         /\ mn <= mx
         /\ min_value = mn
         /\ max_value = mx
    /\ ok = TRUE
    /\ arg_data = ZeroBuffer /\ arg_window_size = FILTER_WINDOW /\ arg_min = 0 /\ arg_max = 0

EstimateNext == ReadVoltageEstimate

EstimateSpec == EstimateInit /\ [][EstimateNext]_vars

(***************************************************************************)
(* Properties                                                              *)
(***************************************************************************)
FilterFailed == fpc = "returned" /\ ~ok

\* C1: every failure inside one zmpt101b_read_voltage call reaches the caller
\* as an error: when an i2s_read failed or the median filter returned false
\* (window allocation failure, window larger than the buffer), the call does
\* not return ESP_OK.
C1_FailuresSurfaced ==
    (pc = "returned" /\ (io_failed \/ FilterFailed)) => ret # ESP_OK

\* C2: while successful reads return between 0 and the requested number of
\* bytes, the loop goes on exactly as long as fewer than 2048 bytes (1024
\* samples) have arrived, it is left with exactly 2048 bytes accumulated, and
\* neither the accumulated count nor offset + size of the next read exceeds
\* the allocated block.
C2_AccumulatesExactly ==
    /\ pc \in {"read", "acquired", "filter"} =>
          /\ capacity = 2048
          /\ total_bytes_read <= capacity
    /\ pc = "read" =>
          /\ total_bytes_read < 2048
          /\ ReadSize(total_bytes_read) >= 0
          /\ total_bytes_read + ReadSize(total_bytes_read) <= capacity
    /\ pc \in {"acquired", "filter"} =>
          /\ total_bytes_read = 2048
          /\ total_bytes_read \div 2 = 1024
          /\ Len(data) = 1024

\* C2 witness: the buffer was filled by several reads, some of them short
C2_Witness == pc = "acquired" /\ short_reads /\ total_bytes_read = 2048

\* C3: once an i2s_read has returned an error, the call has returned a
\* non-OK code with the sample buffer released, no further read issued, the
\* filter never entered and no RMS value stored.
C3_ReadErrorAborts ==
    io_failed =>
        /\ pc = "returned"
        /\ ret # ESP_OK
        /\ capacity = 0
        /\ data = << >>
        /\ fpc = "idle"
        /\ rmsVoltage = 0

\* C3 witness: the error came after short chunks had been accumulated
C3_Witness == io_failed /\ short_reads /\ total_bytes_read > 0 /\ pc = "returned"

Range(seq) == {seq[k] : k \in 1..Len(seq)}

SeqMin(seq) == CHOOSE v \in Range(seq) : \A u \in Range(seq) : v <= u

SeqMax(seq) == CHOOSE v \in Range(seq) : \A u \in Range(seq) : v >= u

\* C4: for a buffer of length >= 1 and any window size <= length, after the
\* filter returned true min_value is the minimum and max_value the maximum of
\* the filtered buffer, hence min_value <= max_value.
C4_ExtremesOfFiltered ==
    (fpc = "returned" /\ ok /\ length >= 1) =>
        /\ min_value = SeqMin(data)
        /\ max_value = SeqMax(data)
        /\ min_value <= max_value

\* C4 witness: a successful run with an even window and distinct extremes
C4_Witness ==
    /\ fpc = "returned" /\ ok /\ length >= 2
    /\ arg_window_size % 2 = 0
    /\ min_value < max_value
    /\ data # arg_data

\* outcome of the finished call, as MedianFilter reports it
Outcome == [ok |-> ok, data |-> data, min |-> min_value, max |-> max_value]

\* C5 as stated: for every even window size w <= length the outcome (result,
\* buffer, min, max) equals the outcome of filtering the same buffer with
\* window size w + 1.
C5_EvenLikeNextOdd ==
    (fpc = "returned" /\ arg_window_size % 2 = 0 /\ arg_window_size <= length) =>
        Outcome = MedianFilter(arg_data, length, arg_window_size + 1,
                               arg_min, arg_max, ok)

\* C5 amended: for every even window size w with w + 1 <= length (and the
\* same outcome of the window allocation) the outcome equals the outcome of
\* filtering the same buffer with window size w + 1.
C5_EvenLikeNextOddWithinLength ==
    (fpc = "returned" /\ arg_window_size % 2 = 0 /\ arg_window_size + 1 <= length) =>
        Outcome = MedianFilter(arg_data, length, arg_window_size + 1,
                               arg_min, arg_max, ok)

\* C5 witness: a successful run with an even window >= 2 that changed the buffer
C5_Witness ==
    /\ fpc = "returned" /\ ok
    /\ arg_window_size % 2 = 0 /\ arg_window_size >= 2
    /\ arg_window_size + 1 <= length
    /\ data # arg_data

FixtureRun == fpc = "returned" /\ ok /\ arg_data = Fixture /\ arg_window_size = 3

C7_OversizedWindowRejected ==
    arg_window_size > length =>
        /\ fpc \in {"entry", "returned"}
        /\ window = << >>
        /\ data = arg_data
        /\ min_value = arg_min
        /\ max_value = arg_max
        /\ fpc = "returned" => ~ok

\* C7 witness: a rejected call on a non-empty buffer with non-zero caller values
C7_Witness ==
    /\ fpc = "returned" /\ ~ok
    /\ arg_window_size > length /\ length >= 1
    /\ arg_min = 7

\* m * (c2 * 10^6 + c1 * 10^3 + c0) in base 1000, most significant limb first
Limbs(m, c2, c1, c0) ==
    LET t0 == m * c0
        t1 == m * c1 + t0 \div 1000
        t2 == m * c2 + t1 \div 1000
    IN  << t2, t1 % 1000, t0 % 1000 >>

LimbsLeq(x, y) ==
    \/ x[1] < y[1]
    \/ x[1] = y[1] /\ x[2] < y[2]
    \/ x[1] = y[1] /\ x[2] = y[2] /\ x[3] <= y[3]

\* |r - (d / 2) / 1.4142135| <= 1/2, as
\* (2r - 1) * 14142135 <= d * 10^7 <= (2r + 1) * 14142135
NearestTo(r, d) ==
    /\ r = 0 \/ LimbsLeq(Limbs(2 * r - 1, 14, 142, 135), Limbs(d, 10, 0, 0))
    /\ LimbsLeq(Limbs(d, 10, 0, 0), Limbs(2 * r + 1, 14, 142, 135))

\* C8: for calibrated extremes minMv <= maxMv the stored RMS value is
\* ((maxMv - minMv) / 2) / 1.4142135 rounded to the nearest whole unit; with
\* the identity calibration, min = 1000 and max = 5000 it is 1414.
C8_RmsRoundedToNearest ==
    pc = "returned" =>
        LET minMv == RawToVoltage(min_value, adc_chars)
            maxMv == RawToVoltage(max_value, adc_chars)
        IN  /\ minMv <= maxMv
            /\ NearestTo(rmsVoltage, maxMv - minMv)
            /\ (adc_chars = "identity" /\ min_value = 1000 /\ max_value = 5000)
                  => rmsVoltage = 1414

\* C8 witness: the canonical case has been estimated
C8_Witness ==
    /\ pc = "returned" /\ adc_chars = "identity"
    /\ min_value = 1000 /\ max_value = 5000 /\ rmsVoltage = 1414

\* C9: when zmpt101b_init returns, all six sub-steps have been attempted in
\* order whatever failed before, the sub-steps that succeeded are still in
\* effect (no rollback), and the result is ESP_OK exactly when no sub-step
\* returned an error.
C9_InitCombinesSubSteps ==
    pc = "init_returned" =>
        /\ attempted = InitSubSteps
        /\ succeeded \subseteq applied
        /\ (sensor_err = ESP_OK) <=> ~any_failed

\* C9 witness: the first sub-step failed, the last one still ran and succeeded
C9_Witness ==
    /\ pc = "init_returned" /\ any_failed
    /\ "adc1_config_width" \notin succeeded
    /\ "i2s_adc_enable" \in succeeded
    /\ sensor_err # ESP_OK

\* element at position Len / 2 of the sorted sequence
MedianOf(seq) ==
    LET m == Len(seq) \div 2
    IN  CHOOSE v \in Range(seq) :
            /\ Cardinality({j \in 1..Len(seq) : seq[j] < v}) <= m
            /\ m < Cardinality({j \in 1..Len(seq) : seq[j] <= v})

\* median filter of an untouched copy: every window is cut from the input
PlainMedianFilter(d, len, half_window) ==
    [k \in 1..len |->
        MedianOf(SubSeq(d, WindowStart(k - 1, half_window) + 1,
                           WindowEnd(k - 1, half_window, len) + 1))]

\* C10: the value written at every index is the median of the ORIGINAL
\* samples in the clamped window, so the filtered buffer equals the output of
\* a non-recursive median filter applied to an untouched copy of the input.
C10_WindowsOfOriginalSamples ==
    (fpc = "returned" /\ ok) =>
        data = PlainMedianFilter(arg_data, length, OddWindow(arg_window_size) \div 2)

====
